---- MODULE Spec2Model ----
(***************************************************************************)
(* NovaShell: the raw-mode line editor (Shell::readline,                   *)
(* Shell::handle_funckey), the history store (Shell::exec,                 *)
(* read_commands, write_commands) and the job dispatch                     *)
(* (Shell::exec_commands_in_line, Shell::create_backend_thread) of         *)
(* src/src/shell/mod.rs.                                                   *)
(*                                                                         *)
(* A byte is a one-character string, a line a sequence of bytes.  An       *)
(* Rc<RefCell<Vec<u8>>> is a cell of `heap`: history_commands and the      *)
(* printer hold cell ids, so two holders of one id share the bytes.        *)
(* Printer, ThreadManager, Parser, Pipeline, the key codes and the command *)
(* table live in modules that are not part of src/; they are modelled from *)
(* their documented contracts.                                             *)
(*                                                                         *)
(* Spec is the whole shell, a function key taken as one key.  TabSpec is   *)
(* the Tab arm of readline on a set of typed lines.  KeySpec is a read     *)
(* in which the bytes after ESC arrive one at a time.                      *)
(***************************************************************************)
EXTENDS Integers, Sequences, FiniteSets, TLC

VARIABLES
    env,              \* the user and the parser of this session (fixed)
    heap,             \* cell id -> bytes: the live Rc<RefCell<Vec<u8>>> cells
    history_commands, \* Shell.history_commands: sequence of cell ids
    buf,              \* Shell.printer.buf: a cell id
    cursor,           \* Shell.printer.cursor
    command_index,    \* readline's local command_index
    file,             \* the lines of the history file at history_path
    pc,               \* where the session thread is
    raw,              \* the terminal is in raw mode
    command_bytes,    \* exec's local command_bytes
    foreground,       \* exec_commands_in_line: foreground pipelines not yet executed
    backend,          \* exec_commands_in_line: backend_pipelines of the line
    children,         \* children of the current foreground pipeline not yet waited on
    procs,            \* pid -> "running" | "exited" | "reaped": the foreground
                      \* processes of the current line
    chan,             \* the request channel (p_s -> c_r) of the backend thread
    bk_pc,            \* where the backend thread is: "recv", "run" or "dead"
    bk_req,           \* the request the backend thread is processing
    bk_next,          \* index of the next pipeline of bk_req to execute
    p_r,              \* the response channel (c_s -> p_r): handles of spawned children
    cwd,              \* the working directory of the process
    cd_at,            \* the value of sent when the session thread last changed
                      \* the working directory (0: it never did)
    keys,             \* handle_funckey's local keys: the suffix read after ESC
    nkeys,            \* number of keys read from the terminal (bounded by MaxKeys)
    sent,             \* number of JobRequests sent so far
    mark,             \* what the session thread saw at the start of the current read
    returned,         \* how the last read returned: "Enter", "Tab", or "none"
    prev_line         \* the line the previous read submitted, or NoLine

vars == <<env, heap, history_commands, buf, cursor, command_index, file, pc, raw,
          command_bytes, foreground, backend, children, procs, chan, bk_pc,
          bk_req, bk_next, p_r, cwd, cd_at, keys, nkeys, sent, mark, returned,
          prev_line>>

----------------------------------------------------------------------------
(* Bounds of the model. *)

MaxLen == 3          \* a printable byte is inserted only into a shorter buffer
MaxKeys == 7         \* keys read from the terminal in one session
MaxLines == 2        \* lines executed in one session

----------------------------------------------------------------------------
(* Bytes and strings. *)

NoLine == <<"-none-">>

\* The value of keys outside handle_funckey.
NoKeys == <<"-none-">>

ls == <<"l", "s">>
pwd == <<"p", "w", "d">>

\* The history files a session may start from.
InitFiles == { <<>>, <<ls, pwd>> }

\* The printable bytes the user types.
TypedBytes == {"c", " "}

Range(s) == { s[i] : i \in 1..Len(s) }

Min(a, b) == IF a < b THEN a ELSE b

StartsWith(s, p) == Len(p) <= Len(s) /\ SubSeq(s, 1, Len(p)) = p

AllBlank(s) == \A i \in 1..Len(s) : s[i] = " "

\* Vec::truncate
Truncate(s, n) == SubSeq(s, 1, Min(n, Len(s)))

\* str::replace of one character by the empty string
RECURSIVE Strip(_, _)
Strip(s, ch) ==
    IF s = <<>> THEN <<>>
    ELSE (IF Head(s) = ch THEN <<>> ELSE <<Head(s)>>) \o Strip(Tail(s), ch)

----------------------------------------------------------------------------
(* The cells (Rc<RefCell<Vec<u8>>>). *)

\* Rc::new: the id of a cell that is not live.
NewCell(h) == CHOOSE id \in 1..(Cardinality(DOMAIN h) + 1) : id \notin DOMAIN h

\* A cell lives as long as history_commands or the printer holds it.
Live(h, hist, b) == [id \in (DOMAIN h) \cap (Range(hist) \cup {b}) |-> h[id]]

\* The bytes of the history entries, in order.
Lines(h, hist) == [i \in 1..Len(hist) |-> h[hist[i]]]

----------------------------------------------------------------------------
(* Printer: buf, cursor and the editing operations.  A printer state is    *)
(* [h |-> cells, b |-> bound cell, c |-> cursor].                          *)

Printer == [h |-> heap, b |-> buf, c |-> cursor]

\* insert(bytes): at the cursor; the cursor advances by the inserted length.
insert(P, bytes) ==
    [P EXCEPT !.h[P.b] = SubSeq(@, 1, P.c) \o bytes \o SubSeq(@, P.c + 1, Len(@)),
              !.c = P.c + Len(bytes)]

\* delete(count): forward from the cursor; the cursor stays.
delete(P, count) ==
    [P EXCEPT !.h[P.b] = SubSeq(@, 1, P.c)
                         \o SubSeq(@, Min(P.c + count, Len(@)) + 1, Len(@))]

\* cursor_left(n), cursor_right(n): bounded to [0, len].
cursor_left(P, n) == [P EXCEPT !.c = IF n > P.c THEN 0 ELSE P.c - n]

cursor_right(P, n) == [P EXCEPT !.c = Min(P.c + n, Len(P.h[P.b]))]

\* backspace(): deletes the byte before the cursor, if there is one.
backspace(P) == IF P.c > 0 THEN delete(cursor_left(P, 1), 1) ELSE P

home(P) == [P EXCEPT !.c = 0]

end(P) == [P EXCEPT !.c = Len(P.h[P.b])]

\* change_line(new_buf): binds the printer to the cell, cursor at its end.
change_line(P, cell) == [P EXCEPT !.b = cell, !.c = Len(P.h[cell])]

\* init_before_readline(): a fresh empty buffer, cursor 0.
init_before_readline(P) ==
    LET id == NewCell(P.h)
    IN  [h |-> [i \in (DOMAIN P.h) \cup {id} |-> IF i = id THEN <<>> ELSE P.h[i]],
         b |-> id, c |-> 0]
----------------------------------------------------------------------------
(* Completion (readline's Tab arm, complete_command, complete_path). *)

Str_cd == <<"c", "d">>
Str_echo == <<"e", "c", "h", "o">>
Str_exit == <<"e", "x", "i", "t">>

\* The names registered in the command table (BuildInCmd::map()).
CommandTable == {Str_cd, Str_echo, Str_exit}

\* The file system seen by fs::read_dir: directory -> entries.
\* <<>> stands for "." ; a directory that is not listed cannot be read.
FileSystem ==
    (<<>> :> { [name |-> <<"c", "x">>, is_dir |-> FALSE],
               [name |-> <<"c", " ", "y">>, is_dir |-> TRUE] })
    @@ (<<"c", " ", "y", "/">> :> { [name |-> <<"f">>, is_dir |-> FALSE] })

\* Scan without the quote handling: every space separates.
RECURSIVE ScanNoQuotes(_, _, _, _)
ScanNoQuotes(str, fragments, stack, left_quote) ==
    IF str = <<>> THEN [fragments |-> fragments, stack |-> stack]
    ELSE IF Head(str) = " "
    THEN IF stack # <<>>
         THEN ScanNoQuotes(Tail(str), Append(fragments, stack), <<>>, " ")
         ELSE ScanNoQuotes(Tail(str), fragments, stack, " ")
    ELSE ScanNoQuotes(Tail(str), fragments, Append(stack, Head(str)), " ")

\* The tokenizer loop of the Tab arm: the fragments emitted so far and the
\* pending stack, after scanning str with the open quote left_quote.
RECURSIVE Scan(_, _, _, _)
Scan(str, fragments, stack, left_quote) ==
    IF str = <<>> THEN [fragments |-> fragments, stack |-> stack]
    ELSE LET ch == Head(str)
             rest == Tail(str)
         IN  IF left_quote # " "
             THEN Scan(rest, fragments, Append(stack, ch),
                       IF ch = left_quote THEN " " ELSE left_quote)
             ELSE IF ch = "'" \/ ch = "\""
             THEN Scan(rest, fragments, Append(stack, ch), ch)
             ELSE IF ch = " "
             THEN IF stack # <<>>
                  THEN Scan(rest, Append(fragments, stack), <<>>, " ")
                  ELSE Scan(rest, fragments, stack, " ")
             ELSE Scan(rest, fragments, Append(stack, ch), " ")

\* The text before the cursor.
BeforeCursor == Truncate(heap[buf], cursor)

\* The fragments of the text before the cursor, the pending one last.
Fragments(str) ==
    LET sc == Scan(str, <<>>, <<>>, " ")
    IN  IF sc.stack # <<>> THEN Append(sc.fragments, sc.stack) ELSE sc.fragments

\* Nothing is pending at the cursor: the Tab arm returns.
NothingPending(str) == Scan(str, <<>>, <<>>, " ").stack = <<>>

complete_command(command) ==
    [prefix |-> <<>>,
     candidates |-> { cmd \in CommandTable : StartsWith(cmd, command) }]

\* str::rfind('/'): the index of the last '/', 0 when there is none.
RFindSlash(s) ==
    IF \E i \in 1..Len(s) : s[i] = "/"
    THEN CHOOSE i \in 1..Len(s) : s[i] = "/" /\ \A j \in (i + 1)..Len(s) : s[j] # "/"
    ELSE 0

\* The candidate a directory entry becomes.
Candidate(entry) ==
    LET quoted == IF " " \in Range(entry.name)
                  THEN <<"'">> \o entry.name \o <<"'">> ELSE entry.name
    IN  IF entry.is_dir THEN Append(quoted, "/") ELSE quoted

complete_path(incomplete_path) ==
    LET index == RFindSlash(incomplete_path)
        dir == SubSeq(incomplete_path, 1, index)
        incomplete_name == SubSeq(incomplete_path, index + 1, Len(incomplete_path))
    IN  [prefix |-> dir,
         candidates |->
            IF dir \in DOMAIN FileSystem
            THEN { Candidate(e) : e \in { x \in FileSystem[dir] :
                                            StartsWith(x.name, incomplete_name) } }
            ELSE {}]

\* The completion the Tab arm computes for the text before the cursor.
Completion(str) ==
    LET fragments == Fragments(str)
        old_fragment == fragments[Len(fragments)]
        target_fragment == Strip(Strip(old_fragment, "'"), "\"")
        res == IF Len(fragments) < 2 THEN complete_command(target_fragment)
               ELSE complete_path(target_fragment)
    IN  [old_fragment |-> old_fragment, prefix |-> res.prefix,
         candidates |-> res.candidates]

\* The Tab arm goes on to complete: the text is not blank and a token is pending.
Completing(str) == str # <<>> /\ ~AllBlank(str) /\ ~NothingPending(str)
----------------------------------------------------------------------------
(* The key codes: FunctionKeySuffix. *)

\* Byte 0: what read_char returns when the input has ended (read() returns
\* Ok(0) and leaves the zeroed buffer as it is).
NUL == "^@"

\* Byte 27.
ESC == "^["

\* The bytes that follow ESC on the terminal: those of the known suffixes,
\* a printable byte, another ESC and the end of the input.
SuffixBytes == {"[", "A", "B", "C", "D", "F", "H", "3", "~", "c", ESC, NUL}

\* The function keys and the suffix that identifies each.
FunctionKeySuffix ==
    [Up |-> <<"[", "A">>, Down |-> <<"[", "B">>, Right |-> <<"[", "C">>,
     Left |-> <<"[", "D">>, Home |-> <<"[", "H">>, End |-> <<"[", "F">>,
     Delete |-> <<"[", "3", "~">>]

\* FunctionKeySuffix::should_read_more: the bytes read so far can still
\* grow into a known suffix.
should_read_more(value) ==
    \E fk \in DOMAIN FunctionKeySuffix :
        /\ Len(value) < Len(FunctionKeySuffix[fk])
        /\ StartsWith(FunctionKeySuffix[fk], value)

\* FunctionKeySuffix::try_from: the key whose suffix the bytes are.
try_from(value) ==
    IF \E fk \in DOMAIN FunctionKeySuffix : FunctionKeySuffix[fk] = value
    THEN CHOOSE fk \in DOMAIN FunctionKeySuffix : FunctionKeySuffix[fk] = value
    ELSE "None"

----------------------------------------------------------------------------
(* The session thread: Shell::new, Shell::exec, Shell::readline. *)

\* The directories: the one the shell starts in and another one.
RootDir == "/"
OtherDir == "/a"
NoDir == ""

\* A Pipeline: its backend() flag, the number of its stages and, for the
\* builtin cd, the directory it changes to.
Fg(n) == [backend |-> FALSE, stages |-> n, cd |-> NoDir]
Bg(n) == [backend |-> TRUE, stages |-> n, cd |-> NoDir]
Cd(dir) == [backend |-> FALSE, stages |-> 0, cd |-> dir]

\* What Parser::parse returns for the lines of a job session.
ParseOk ==
    { <<>>, <<Fg(1)>>, <<Bg(1)>>, <<Fg(2), Fg(1)>>, <<Bg(2), Bg(1)>>,
      <<Bg(1), Fg(2)>>, <<Fg(1), Bg(2), Fg(1)>>, <<Cd(OtherDir)>> }

\* The sessions checked.  In an editing session the user uses every key,
\* a line parses to an empty list of pipelines and the directories of the
\* requests exist.  In a job session the user types one-byte lines, a line
\* parses to any of ParseOk and a directory may be gone when the backend
\* thread enters it.  In both a function key is taken as one key: ESC and
\* its suffix are read in the step that handles the key.
Environments ==
    { [editing |-> TRUE, bytewise |-> FALSE, bytes |-> TypedBytes, width |-> MaxLen,
       files |-> InitFiles, parses |-> { <<>> }, dir_gone |-> FALSE],
      [editing |-> FALSE, bytewise |-> FALSE, bytes |-> {"c"}, width |-> 1,
       files |-> { <<>> }, parses |-> ParseOk, dir_gone |-> TRUE] }

\* The sessions in which the terminal delivers the bytes after ESC one by
\* one, any of SuffixBytes at each read.
KeyEnvironments ==
    { [editing |-> TRUE, bytewise |-> TRUE, bytes |-> {"c"}, width |-> 1,
       files |-> { <<ls, pwd>> }, parses |-> { <<>> }, dir_gone |-> FALSE] }

\* read_commands: one entry per line of the file, in file order.
LoadedHeap(f) == [id \in 1..(Len(f) + 1) |-> IF id <= Len(f) THEN f[id] ELSE <<>>]

\* The state after Shell::new(): the history loaded, the printer bound to
\* an empty buffer, the backend thread waiting for its first request.
Loaded ==
    /\ file \in env.files
    /\ heap = LoadedHeap(file)
    /\ history_commands = [i \in 1..Len(file) |-> i]
    /\ buf = Len(file) + 1
    /\ cursor = 0
    /\ command_index = 0
    /\ pc = "exec"
    /\ raw = FALSE
    /\ command_bytes = <<>>
    /\ foreground = <<>>
    /\ backend = <<>>
    /\ children = <<>>
    /\ procs = <<>>
    /\ chan = <<>>
    /\ bk_pc = "recv"
    /\ bk_req = [id |-> 0, dir |-> RootDir, pipelines |-> <<>>]
    /\ bk_next = 0
    /\ p_r = <<>>
    /\ cwd = RootDir
    /\ cd_at = 0
    /\ keys = NoKeys
    /\ nkeys = 0
    /\ sent = 0
    /\ mark = [read |-> 0, history |-> 0, file |-> 0, sent |-> 0]
    /\ returned = "none"
    /\ prev_line = NoLine

Init ==
    /\ env \in Environments
    /\ Loaded

editor == <<heap, history_commands, buf, cursor, command_index>>
jobs == <<foreground, backend, children, procs>>
worker == <<chan, bk_pc, bk_req, bk_next, p_r>>
process == <<cwd, cd_at>>
log == <<env, process, sent, mark, prev_line>>
ghost == <<env, process, keys, nkeys, sent, mark, returned, prev_line>>

\* readline reads one more key.
ReadKey ==
    /\ pc = "readline"
    /\ keys = NoKeys
    /\ nkeys < MaxKeys
    /\ nkeys' = nkeys + 1
    /\ UNCHANGED keys

\* readline reads one more key, from a user who uses the editing keys.
EditKey ==
    /\ env.editing
    /\ ReadKey

\* The printer becomes P; cells nobody holds any more are dropped.
SetPrinter(P, hist) ==
    /\ heap' = Live(P.h, hist, P.b)
    /\ buf' = P.b
    /\ cursor' = P.c

\* exec, before the loop: raw mode is enabled.
ExecStart ==
    /\ pc = "exec"
    /\ raw' = TRUE
    /\ pc' = "loop"
    /\ UNCHANGED <<editor, file, command_bytes, jobs, worker, ghost>>

\* Line 82: enable_raw_mode fails and expect() panics.
ExecStartFails ==
    /\ pc = "exec"
    /\ pc' = "panic: raw mode"
    /\ UNCHANGED <<editor, file, raw, command_bytes, jobs, worker, ghost>>

\* exec's loop head and readline's prologue: a fresh buffer, the sentinel
\* pushed, command_index on the sentinel.
ReadlineStart ==
    /\ pc = "loop"
    /\ nkeys < MaxKeys
    /\ sent < MaxLines
    /\ LET P == init_before_readline(Printer)
           hist == Append(history_commands, P.b)
       IN  /\ SetPrinter(P, hist)
           /\ history_commands' = hist
           /\ command_index' = Len(hist) - 1
    /\ mark' = [read |-> mark.read + 1, history |-> Len(history_commands),
                 file |-> Len(file), sent |-> sent]
    /\ pc' = "readline"
    /\ returned' = "none"
    /\ prev_line' = IF mark.read = 0 THEN NoLine ELSE command_bytes
    /\ procs' = <<>>
    /\ UNCHANGED <<file, raw, command_bytes, foreground, backend, children, worker,
                   env, process, keys, nkeys, sent>>

\* A step of readline's loop that changes the printer only.
Edit(P) ==
    /\ SetPrinter(P, history_commands)
    /\ UNCHANGED <<history_commands, command_index, file, pc, raw, command_bytes,
                   jobs, worker, returned, log>>

\* A printable byte.
KeyPrintable ==
    /\ ReadKey
    /\ Len(heap[buf]) < env.width
    /\ \E c \in env.bytes : Edit(insert(Printer, <<c>>))

\* A control byte 1..=31 that is no special key: nothing happens.
KeyControl ==
    /\ EditKey
    /\ UNCHANGED <<editor, file, pc, raw, command_bytes, jobs, worker, returned, log>>

KeyBackSpace ==
    /\ EditKey
    /\ Edit(backspace(Printer))

\* LF or CR: the sentinel is popped and readline returns 1.
KeyEnter ==
    /\ ReadKey
    /\ history_commands' = SubSeq(history_commands, 1, Len(history_commands) - 1)
    /\ heap' = Live(heap, history_commands', buf)
    /\ pc' = "record"
    /\ returned' = "Enter"
    /\ UNCHANGED <<buf, cursor, command_index, file, raw, command_bytes, jobs,
                   worker, log>>

----------------------------------------------------------------------------
(* Shell::handle_funckey: the sub-read of the suffix, then the key the     *)
(* suffix resolves to.                                                     *)

\* ESC: readline calls handle_funckey, which starts with no suffix byte.
KeyEscape ==
    /\ env.bytewise
    /\ pc = "readline"
    /\ keys = NoKeys
    /\ nkeys < MaxKeys
    /\ keys' = <<>>
    /\ UNCHANGED <<editor, file, pc, raw, command_bytes, jobs, worker, nkeys,
                   returned, log>>

\* Lines 193-195: one more byte of the suffix is read.
ReadSuffix ==
    /\ keys # NoKeys
    /\ should_read_more(keys)
    /\ \E byte \in SuffixBytes : keys' = Append(keys, byte)
    /\ UNCHANGED <<editor, file, pc, raw, command_bytes, jobs, worker, nkeys,
                   returned, log>>

\* Lines 196-203: the sub-read has stopped and the suffix resolves to
\* function_key; handle_funckey returns after handling it.
Funckey(function_key) ==
    /\ env.editing
    /\ pc = "readline"
    /\ nkeys < MaxKeys
    /\ IF env.bytewise
       THEN /\ keys # NoKeys
            /\ ~should_read_more(keys)
            /\ try_from(keys) = function_key
       ELSE keys = NoKeys
    /\ nkeys' = nkeys + 1
    /\ keys' = NoKeys

\* FuncUp with the printer bound by assignment instead of change_line: the
\* cursor keeps its place.
FuncUpKeepsCursor ==
    /\ Funckey("Up")
    /\ IF command_index > 0
       THEN /\ command_index' = command_index - 1
            /\ SetPrinter([Printer EXCEPT !.b = history_commands[command_index' + 1]],
                          history_commands)
       ELSE UNCHANGED <<heap, buf, cursor, command_index>>
    /\ UNCHANGED <<history_commands, file, pc, raw, command_bytes, jobs, worker,
                   returned, log>>

\* FuncUp without the call of change_line: the index moves, the line stays.
FuncUpKeepsLine ==
    /\ Funckey("Up")
    /\ IF command_index > 0
       THEN /\ command_index' = command_index - 1
            /\ UNCHANGED <<heap, buf, cursor>>
       ELSE UNCHANGED <<heap, buf, cursor, command_index>>
    /\ UNCHANGED <<history_commands, file, pc, raw, command_bytes, jobs, worker,
                   returned, log>>

\* FuncUp binding the printer to a copy of the entry (copy on recall).
FuncUpCopies ==
    /\ Funckey("Up")
    /\ IF command_index > 0
       THEN /\ command_index' = command_index - 1
            /\ LET id == NewCell(heap)
                   copy == [i \in (DOMAIN heap) \cup {id} |->
                               IF i = id THEN heap[history_commands[command_index]]
                               ELSE heap[i]]
               IN  SetPrinter(change_line([Printer EXCEPT !.h = copy], id),
                              history_commands)
       ELSE UNCHANGED <<heap, buf, cursor, command_index>>
    /\ UNCHANGED <<history_commands, file, pc, raw, command_bytes, jobs, worker,
                   returned, log>>

FuncUp ==
    /\ Funckey("Up")
    /\ IF command_index > 0
       THEN /\ command_index' = command_index - 1
            /\ SetPrinter(change_line(Printer, history_commands[command_index' + 1]),
                          history_commands)
       ELSE UNCHANGED <<heap, buf, cursor, command_index>>
    /\ UNCHANGED <<history_commands, file, pc, raw, command_bytes, jobs, worker,
                   returned, log>>

FuncDown ==
    /\ Funckey("Down")
    /\ IF command_index < Len(history_commands) - 1
       THEN /\ command_index' = command_index + 1
            /\ SetPrinter(change_line(Printer, history_commands[command_index' + 1]),
                          history_commands)
       ELSE UNCHANGED <<heap, buf, cursor, command_index>>
    /\ UNCHANGED <<history_commands, file, pc, raw, command_bytes, jobs, worker,
                   returned, log>>

FuncLeft ==
    /\ Funckey("Left")
    /\ Edit(IF cursor > 0 THEN cursor_left(Printer, 1) ELSE Printer)

FuncRight ==
    /\ Funckey("Right")
    /\ Edit(IF cursor < Len(heap[buf]) THEN cursor_right(Printer, 1) ELSE Printer)

FuncHome ==
    /\ Funckey("Home")
    /\ Edit(home(Printer))

FuncEnd ==
    /\ Funckey("End")
    /\ Edit(end(Printer))

FuncDelete ==
    /\ Funckey("Delete")
    /\ Edit(delete(Printer, 1))

\* FuncUnknown falling through to the Home arm.
FuncUnknownHome ==
    /\ Funckey("None")
    /\ Edit(home(Printer))

\* The suffix matches no function key: handle_funckey returns.
FuncUnknown ==
    /\ Funckey("None")
    /\ UNCHANGED <<editor, file, pc, raw, command_bytes, jobs, worker, returned, log>>

----------------------------------------------------------------------------
(* readline's Tab arm. *)

\* Nothing, or only blanks, before the cursor: continue.
TabBlank ==
    /\ EditKey
    /\ BeforeCursor = <<>> \/ AllBlank(BeforeCursor)
    /\ UNCHANGED <<editor, file, pc, raw, command_bytes, jobs, worker, returned, log>>

\* The text before the cursor ends in a separating space: return 1.
TabNothingPending ==
    /\ EditKey
    /\ BeforeCursor # <<>> /\ ~AllBlank(BeforeCursor)
    /\ NothingPending(BeforeCursor)
    /\ pc' = "record"
    /\ returned' = "Tab"
    /\ UNCHANGED <<editor, file, raw, command_bytes, jobs, worker, log>>

\* Completed without cursor_left and delete: the candidate is inserted at
\* the cursor and the token stays.
CompletedKeepsToken(P, comp) ==
    IF Cardinality(comp.candidates) = 1
    THEN insert(P, comp.prefix \o (CHOOSE x \in comp.candidates : TRUE))
    ELSE IF Cardinality(comp.candidates) >= 2
    THEN end(P)
    ELSE P

\* The printer after the match on candidates.len().
Completed(P, comp) ==
    IF Cardinality(comp.candidates) = 1
    THEN LET candidate == CHOOSE x \in comp.candidates : TRUE
             n == Len(comp.old_fragment)
         IN  insert(delete(cursor_left(P, n), n), comp.prefix \o candidate)
    ELSE IF Cardinality(comp.candidates) >= 2
    THEN end(P)
    ELSE P

TabOne ==
    /\ EditKey
    /\ Completing(BeforeCursor)
    /\ Cardinality(Completion(BeforeCursor).candidates) = 1
    /\ Edit(Completed(Printer, Completion(BeforeCursor)))

TabMany ==
    /\ EditKey
    /\ Completing(BeforeCursor)
    /\ Cardinality(Completion(BeforeCursor).candidates) >= 2
    /\ Edit(Completed(Printer, Completion(BeforeCursor)))

TabNone ==
    /\ EditKey
    /\ Completing(BeforeCursor)
    /\ Completion(BeforeCursor).candidates = {}
    /\ Edit(Completed(Printer, Completion(BeforeCursor)))

----------------------------------------------------------------------------
(* Shell::exec after readline returned 1. *)

\* history_commands.last(), or an empty line when there is none.
LastCommand ==
    IF history_commands = <<>> THEN <<>>
    ELSE heap[history_commands[Len(history_commands)]]

\* The line is recorded: not empty, no leading space, not the last entry.
Recorded(line) == line # <<>> /\ line[1] # " " /\ line # LastCommand

\* Lines 93-113: the line is recorded or not, then executed unless blank.
Record ==
    /\ pc = "record"
    /\ command_bytes' = heap[buf]
    /\ IF Recorded(heap[buf])
       THEN LET id == NewCell(heap)
            IN  /\ heap' = [i \in (DOMAIN heap) \cup {id} |->
                                IF i = id THEN heap[buf] ELSE heap[i]]
                /\ history_commands' = Append(history_commands, id)
                /\ file' = Append(file, heap[buf])
       ELSE UNCHANGED <<heap, history_commands, file>>
    /\ pc' = IF AllBlank(heap[buf]) THEN "loop" ELSE "parse"
    /\ UNCHANGED <<buf, cursor, command_index, raw, jobs, worker, ghost>>
----------------------------------------------------------------------------
(* Shell::exec_commands_in_line. *)

\* Select without the test of backend(): every pipeline is taken.
SelectAll(ps, flag) == ps

\* The pipelines of ps, in order, whose backend() is flag.
RECURSIVE Select(_, _)
Select(ps, flag) ==
    IF ps = <<>> THEN <<>>
    ELSE (IF Head(ps).backend = flag THEN <<Head(ps)>> ELSE <<>>)
         \o Select(Tail(ps), flag)

\* Lines 119-131: the line parses and its pipelines are partitioned.
Parse ==
    /\ pc = "parse"
    /\ \E pipelines \in env.parses :
          /\ foreground' = Select(pipelines, FALSE)
          /\ backend' = Select(pipelines, TRUE)
    /\ pc' = "send"
    /\ UNCHANGED <<editor, file, raw, command_bytes, children, procs, worker, ghost>>

\* Line 120: Parser::parse returns an error and unwrap() panics: the
\* session thread, and the process with it, ends.
ParseError ==
    /\ pc = "parse"
    /\ pc' = "panic: parse"
    /\ UNCHANGED <<editor, file, raw, command_bytes, jobs, worker, ghost>>

\* EnvManager::current_dir(): the working directory of the process.
current_dir == cwd

\* Lines 134-136: the background pipelines go to the backend thread.  The
\* result of send is dropped: with the receiver gone the request is lost.
Send ==
    /\ pc = "send"
    /\ sent' = sent + 1
    /\ chan' = IF bk_pc = "dead" THEN chan
               ELSE Append(chan, [id |-> sent + 1, dir |-> current_dir,
                                  pipelines |-> backend])
    /\ pc' = "disable"
    /\ UNCHANGED <<editor, file, raw, command_bytes, jobs, bk_pc, bk_req, bk_next,
                   p_r, env, process, keys, nkeys, mark, returned, prev_line>>

\* Line 138.
DisableRaw ==
    /\ pc = "disable"
    /\ raw' = FALSE
    /\ pc' = "foreground"
    /\ UNCHANGED <<editor, file, command_bytes, jobs, worker, ghost>>

\* Line 138: disable_raw_mode fails and expect() panics.
DisableRawFails ==
    /\ pc = "disable"
    /\ pc' = "panic: raw mode"
    /\ UNCHANGED <<editor, file, raw, command_bytes, jobs, worker, ghost>>

\* The pids of n processes spawned next.
NewPids(n) == [i \in 1..n |-> Len(procs) + i]

\* Pipeline::execute in the thread that calls it: the builtin cd changes
\* the working directory of the process.
Executed(pipeline) ==
    IF pipeline.cd # NoDir
    THEN /\ cwd' = pipeline.cd
         /\ cd_at' = sent
    ELSE UNCHANGED process

\* Lines 141-142: the next foreground pipeline is executed; it yields the
\* handles of the stages it spawned (none for a builtin, fewer than its
\* stages when a stage fails to spawn).
ExecuteForeground ==
    /\ pc = "foreground"
    /\ children = <<>>
    /\ foreground # <<>>
    /\ \E n \in 0..Head(foreground).stages :
          /\ children' = NewPids(n)
          /\ procs' = procs \o [i \in 1..n |-> "running"]
    /\ Executed(Head(foreground))
    /\ foreground' = Tail(foreground)
    /\ UNCHANGED <<editor, file, pc, raw, command_bytes, backend, worker, env, keys,
                   nkeys, sent, mark, returned, prev_line>>

\* The foreground processes that have been spawned and have not terminated.
Running == { pid \in 1..Len(procs) : procs[pid] = "running" }

\* A foreground process terminates.
ChildExit ==
    /\ \E pid \in Running : procs' = [procs EXCEPT ![pid] = "exited"]
    /\ UNCHANGED <<editor, file, pc, raw, command_bytes, foreground, backend,
                   children, worker, ghost>>

\* WaitChild with try_wait() in the place of wait(): it does not block.
WaitChildNoBlock ==
    /\ pc = "foreground"
    /\ children # <<>>
    /\ procs' = [procs EXCEPT ![Head(children)] =
                    IF @ = "exited" THEN "reaped" ELSE @]
    /\ children' = Tail(children)
    /\ UNCHANGED <<editor, file, pc, raw, command_bytes, foreground, backend,
                   worker, ghost>>

\* Line 143: child.wait() returns once the child has terminated.
WaitChild ==
    /\ pc = "foreground"
    /\ children # <<>>
    /\ procs[Head(children)] = "exited"
    /\ procs' = [procs EXCEPT ![Head(children)] = "reaped"]
    /\ children' = Tail(children)
    /\ UNCHANGED <<editor, file, pc, raw, command_bytes, foreground, backend,
                   worker, ghost>>

\* EnableRaw without the call of enable_raw_mode.
EnableRawForgotten ==
    /\ pc = "foreground"
    /\ children = <<>>
    /\ foreground = <<>>
    /\ pc' = "loop"
    /\ UNCHANGED <<editor, file, raw, command_bytes, jobs, worker, ghost>>

\* Lines 147-149: every foreground pipeline is done.
EnableRaw ==
    /\ pc = "foreground"
    /\ children = <<>>
    /\ foreground = <<>>
    /\ raw' = TRUE
    /\ pc' = "loop"
    /\ UNCHANGED <<editor, file, command_bytes, jobs, worker, ghost>>

\* Line 147: enable_raw_mode fails and expect() panics.
EnableRawFails ==
    /\ pc = "foreground"
    /\ children = <<>>
    /\ foreground = <<>>
    /\ pc' = "panic: raw mode"
    /\ UNCHANGED <<editor, file, raw, command_bytes, jobs, worker, ghost>>

\* The session thread has panicked: the process is gone.
Panicked == pc \in {"panic: parse", "panic: raw mode"}

----------------------------------------------------------------------------
(* The backend thread (create_backend_thread, lines 59-68). *)

\* BackendRecv taking the newest queued request instead of the oldest.
BackendRecvNewest ==
    /\ ~Panicked
    /\ bk_pc = "recv"
    /\ chan # <<>>
    /\ bk_req' = chan[Len(chan)]
    /\ chan' = SubSeq(chan, 1, Len(chan) - 1)
    /\ cwd' = chan[Len(chan)].dir
    /\ bk_next' = 1
    /\ bk_pc' = IF chan[Len(chan)].pipelines = <<>> THEN "recv" ELSE "run"
    /\ UNCHANGED <<editor, file, pc, raw, command_bytes, jobs, p_r, env, cd_at, keys,
                   nkeys, sent, mark, returned, prev_line>>

\* Lines 60-61: the next request is received and its directory entered.
BackendRecv ==
    /\ ~Panicked
    /\ bk_pc = "recv"
    /\ chan # <<>>
    /\ bk_req' = Head(chan)
    /\ chan' = Tail(chan)
    /\ cwd' = Head(chan).dir
    /\ bk_next' = 1
    /\ bk_pc' = IF Head(chan).pipelines = <<>> THEN "recv" ELSE "run"
    /\ UNCHANGED <<editor, file, pc, raw, command_bytes, jobs, p_r, env, cd_at, keys,
                   nkeys, sent, mark, returned, prev_line>>

\* Line 61: set_current_dir fails and expect() panics: the thread ends and
\* its receiver is dropped with the requests still queued.
BackendChdirFails ==
    /\ ~Panicked
    /\ env.dir_gone
    /\ bk_pc = "recv"
    /\ chan # <<>>
    /\ bk_req' = Head(chan)
    /\ chan' = <<>>
    /\ bk_next' = 1
    /\ bk_pc' = "dead"
    /\ UNCHANGED <<editor, file, pc, raw, command_bytes, jobs, p_r, ghost>>

\* The handles of the n children spawned for pipeline k of request id.
Handles(id, k, n) == [i \in 1..n |-> <<id, k, i>>]

\* Lines 62-66: the next pipeline of the request is executed and the
\* handles of its children are sent back, in spawn order.
BackendExecute ==
    /\ ~Panicked
    /\ bk_pc = "run"
    /\ \E n \in 0..bk_req.pipelines[bk_next].stages :
          p_r' = p_r \o Handles(bk_req.id, bk_next, n)
    /\ bk_next' = bk_next + 1
    /\ bk_pc' = IF bk_next = Len(bk_req.pipelines) THEN "recv" ELSE "run"
    /\ UNCHANGED <<editor, file, pc, raw, command_bytes, jobs, chan, bk_req, ghost>>

----------------------------------------------------------------------------

Next ==
    \/ ExecStart
    \/ ExecStartFails
    \/ ReadlineStart
    \/ KeyPrintable
    \/ KeyControl
    \/ KeyBackSpace
    \/ KeyEnter
    \/ FuncUp
    \/ FuncDown
    \/ FuncLeft
    \/ FuncRight
    \/ FuncHome
    \/ FuncEnd
    \/ FuncDelete
    \/ FuncUnknown
    \/ TabBlank
    \/ TabNothingPending
    \/ TabOne
    \/ TabMany
    \/ TabNone
    \/ Record
    \/ Parse
    \/ ParseError
    \/ Send
    \/ DisableRaw
    \/ DisableRawFails
    \/ ExecuteForeground
    \/ ChildExit
    \/ WaitChild
    \/ EnableRaw
    \/ EnableRawFails
    \/ BackendRecv
    \/ BackendChdirFails
    \/ BackendExecute

Spec == Init /\ [][Next]_vars
----------------------------------------------------------------------------
(* Tab pressed on a typed line: the Tab arm of readline applied to every   *)
(* line of TabLines with the cursor anywhere in it.                        *)

Prefixes(s) == { SubSeq(s, 1, n) : n \in 0..Len(s) }

Line_ec == <<"e", "c">>
Line_echo_ab_c == Str_echo \o <<" ", "\"", "a", " ", "b", "\"", " ", "c">>

\* The lines on which Tab is pressed.
TabLines ==
    { Line_ec,
      Line_echo_ab_c,
      <<"e", "c", " ", "h", "o">>,
      <<"e", "x">>,
      <<" ", "c", " ">>,
      Str_cd \o <<" ", "c", "x", " ", "z">>,
      Str_cd \o <<" ", "'", "c", " ", "y", "'", "/">>,
      Str_cd \o <<" ", "\"", "c", " ", "'", "y">>,
      <<"a", "'", "b", " ", "\"", "'", "c", " ", " ", "d">> }

\* The first read of an editing session with an empty history file, after a
\* line of TabLines was typed and the cursor moved into it.
InitTab ==
    /\ env \in { e \in Environments : e.editing }
    /\ file = <<>>
    /\ \E line \in TabLines :
          /\ heap = (2 :> line)
          /\ cursor \in 0..Len(line)
    /\ history_commands = <<2>>
    /\ buf = 2
    /\ command_index = 0
    /\ pc = "readline"
    /\ raw = TRUE
    /\ command_bytes = <<>>
    /\ foreground = <<>>
    /\ backend = <<>>
    /\ children = <<>>
    /\ procs = <<>>
    /\ chan = <<>>
    /\ bk_pc = "recv"
    /\ bk_req = [id |-> 0, dir |-> RootDir, pipelines |-> <<>>]
    /\ bk_next = 0
    /\ p_r = <<>>
    /\ cwd = RootDir
    /\ cd_at = 0
    /\ keys = NoKeys
    /\ nkeys = 0
    /\ sent = 0
    /\ mark = [read |-> 1, history |-> 0, file |-> 0, sent |-> 0]
    /\ returned = "none"
    /\ prev_line = NoLine

NextTab ==
    \/ TabBlank
    \/ TabNothingPending
    \/ TabOne
    \/ TabMany
    \/ TabNone

TabSpec == InitTab /\ [][NextTab]_vars
----------------------------------------------------------------------------
(* The escape sub-read: a session with the history file [ls, pwd] in which *)
(* the bytes after ESC arrive one by one.                                  *)

InitKey ==
    /\ env \in KeyEnvironments
    /\ Loaded

NextKey ==
    \/ ExecStart
    \/ ReadlineStart
    \/ KeyPrintable
    \/ KeyEscape
    \/ ReadSuffix
    \/ FuncUp
    \/ FuncDown
    \/ FuncLeft
    \/ FuncRight
    \/ FuncHome
    \/ FuncEnd
    \/ FuncDelete
    \/ FuncUnknown

KeySpec == InitKey /\ [][NextKey]_vars
----------------------------------------------------------------------------
(* The claims. *)

\* The session thread is past the append decision of the current read's line.
AfterRecord == mark.read >= 1 /\ pc \notin {"exec", "readline", "record"}

\* C1: in every reachable state the cursor index is between 0 and the
\* length of the buffer the printer is bound to.
C1_CursorInBounds ==
    /\ buf \in DOMAIN heap
    /\ cursor \in 0..Len(heap[buf])

\* A recalled entry has been edited and the cursor stands at its end.
C1_Witness ==
    /\ pc = "readline"
    /\ Len(history_commands) = 3
    /\ buf = history_commands[1]
    /\ heap[buf] = <<"l">>
    /\ cursor = 1

\* C2 (as claimed): when a read ended by Enter submits the line the read
\* before it submitted, not empty and without a leading space, nothing is
\* appended to the history store or to the history file.
C2_SecondSubmitAppendsNothing ==
    (/\ AfterRecord
     /\ mark.read >= 2
     /\ returned = "Enter"
     /\ command_bytes = prev_line
     /\ command_bytes # <<>>
     /\ command_bytes[1] # " ")
    => /\ Len(history_commands) = mark.history
       /\ Len(file) = mark.file

\* C3 (as claimed): after a line with a leading space was submitted, the
\* history store and the history file hold what they held when the read began.
C3_BlankPrefixNotStored ==
    (/\ AfterRecord
     /\ command_bytes # <<>>
     /\ command_bytes[1] = " ")
    => /\ Len(history_commands) = mark.history
       /\ Len(file) = mark.file

\* The recall index after Up and after Down.
UpIndex == IF command_index > 0 THEN command_index - 1 ELSE command_index
DownIndex ==
    IF command_index < Len(history_commands) - 1 THEN command_index + 1
    ELSE command_index

\* After a move the printer shows the entry at the new index, with the
\* bytes that entry had; without a move it shows what it showed.
Shows(index) ==
    /\ command_index' = index
    /\ history_commands' = history_commands
    /\ IF index # command_index
       THEN /\ buf' = history_commands[index + 1]
            /\ heap'[buf'] = heap[history_commands[index + 1]]
       ELSE /\ buf' = buf
            /\ heap'[buf'] = heap[buf]

\* The history holds ls and pwd, untouched, below the in-progress line.
LsPwd ==
    /\ Len(history_commands) = 3
    /\ heap[history_commands[1]] = ls
    /\ heap[history_commands[2]] = pwd

\* C4: Up moves the recall index down by 1 unless it is 0, Down moves it up
\* by 1 unless it is len-1; the index stays in [0, len-1]; after a move the
\* printer shows the entry at the new index.  With history [ls, pwd], Up
\* shows pwd, Up again ls, Down pwd, and Down from pwd the in-progress line.
C4_RecallMoves ==
    /\ [](pc = "readline" => command_index \in 0..(Len(history_commands) - 1))
    /\ [][FuncUp => Shows(UpIndex)]_vars
    /\ [][FuncDown => Shows(DownIndex)]_vars
    /\ [][(FuncUp /\ LsPwd /\ command_index = 2) => heap'[buf'] = pwd]_vars
    /\ [][(FuncUp /\ LsPwd /\ command_index = 1) => heap'[buf'] = ls]_vars
    /\ [][(FuncDown /\ LsPwd /\ command_index = 0) => heap'[buf'] = pwd]_vars
    /\ [][(FuncDown /\ LsPwd /\ command_index = 1)
            => buf' = history_commands[3]]_vars

\* Up was pressed twice at the first prompt of a session with history
\* [ls, pwd]: the printer shows ls.
C4_Witness ==
    /\ pc = "readline"
    /\ nkeys = 2
    /\ LsPwd
    /\ command_index = 0
    /\ buf = history_commands[1]
    /\ cursor = 2

\* C5: a foreground process that is not reaped is one of the children the
\* session thread is waiting on: the thread starts the next foreground
\* pipeline, and goes back to reading, only with every process spawned for
\* the line terminated and waited on.
C5_ForegroundBlocking ==
    \A pid \in 1..Len(procs) :
        procs[pid] # "reaped" => (pc = "foreground" /\ pid \in Range(children))

\* Two foreground pipelines, three processes, all reaped, and the session
\* thread is back at the head of its loop.
C5_Witness ==
    /\ pc = "loop"
    /\ Len(procs) = 3
    /\ \A pid \in 1..3 : procs[pid] = "reaped"

\* Handles in spawn order: by request, then pipeline, then stage.
Before(a, b) ==
    \/ a[1] < b[1]
    \/ a[1] = b[1] /\ a[2] < b[2]
    \/ a[1] = b[1] /\ a[2] = b[2] /\ a[3] < b[3]

\* C6: the backend thread takes the requests in the order they were sent,
\* one by one, and spawns the stages of a request's pipelines in sequence
\* order: the queued requests are the ones sent after the one in hand, in
\* send order, and the handles sent back are in request, pipeline, stage order.
C6_BackendOrder ==
    /\ \A i \in 1..Len(chan) : chan[i].id = bk_req.id + i
    /\ bk_pc # "dead" => bk_req.id + Len(chan) = sent
    /\ \A i \in 1..(Len(p_r) - 1) : Before(p_r[i], p_r[i + 1])
    /\ \A i \in 1..Len(p_r) :
          \/ p_r[i][1] < bk_req.id
          \/ p_r[i][1] = bk_req.id /\ p_r[i][2] < bk_next

\* Both stages of P1, then P2, of the first request, then the second request.
C6_Witness ==
    /\ Len(p_r) >= 4
    /\ SubSeq(p_r, 1, 3) = << <<1, 1, 1>>, <<1, 1, 2>>, <<1, 2, 1>> >>
    /\ p_r[4][1] = 2

\* C7: raw mode is off while foreground pipelines are spawned and waited
\* on, and on whenever the session thread is at the head of its loop or
\* reading keys.
C7_RawMode ==
    /\ pc = "foreground" => ~raw
    /\ pc \in {"loop", "readline", "record"} => raw

\* The second read of a session whose first line was executed.
C7_Witness ==
    /\ pc = "readline"
    /\ sent = 1
    /\ raw

\* C8 (as claimed): the backend thread is alive in every state, also after
\* a request whose directory could not be entered.
C8_WorkerSurvives == bk_pc \in {"recv", "run"}

\* C9 (as claimed): a parse error does not end the session thread.
C9_ParseErrorContinues == pc # "panic: parse"

\* C10 (as claimed): Tab never makes readline return: the read goes on.
C10_TabKeepsReading == returned # "Tab"

\* C11 (as claimed): whenever readline has returned, the sentinel pushed at
\* the start of the read is gone: before the append decision the history
\* store has as many entries as it had when the read began.
C11_NoSentinelOnReturn == pc = "record" => Len(history_commands) = mark.history

\* Tab is pressed: one pass through the Tab arm of readline.
Tab == TabBlank \/ TabNothingPending \/ TabOne \/ TabMany \/ TabNone

\* C12 (as claimed): Tab pressed after ec, with cd, echo and exit in the
\* command table, leaves the buffer equal to echo followed by one space,
\* the cursor at its end.
C12_EcTabGivesEchoSpace ==
    [][(Tab /\ heap[buf] = Line_ec /\ cursor = 2)
        => (heap'[buf'] = Str_echo \o <<" ">> /\ cursor' = 5)]_vars

\* The quote that is open after the first i characters of str, " " if none.
RECURSIVE OpenQuote(_, _)
OpenQuote(str, i) ==
    IF i = 0 THEN " "
    ELSE LET q == OpenQuote(str, i - 1)
         IN  IF q # " " THEN (IF str[i] = q THEN " " ELSE q)
             ELSE IF str[i] \in {"'", "\""} THEN str[i]
             ELSE " "

\* Character i of str is a space outside every quoted span.
Separator(str, i) == str[i] = " " /\ OpenQuote(str, i - 1) = " "

\* The maximal runs of str without a separator: <<first, last>> positions.
TokenSpans(str) ==
    { sp \in (1..Len(str)) \X (1..Len(str)) :
        /\ sp[1] <= sp[2]
        /\ \A i \in sp[1]..sp[2] : ~Separator(str, i)
        /\ sp[1] = 1 \/ Separator(str, sp[1] - 1)
        /\ sp[2] = Len(str) \/ Separator(str, sp[2] + 1) }

\* The tokens of str, in the order they stand in it.
IsTokens(str, tokens) ==
    /\ Len(tokens) = Cardinality(TokenSpans(str))
    /\ \A sp \in TokenSpans(str) :
          tokens[Cardinality({ o \in TokenSpans(str) : o[1] <= sp[1] })]
              = SubSeq(str, sp[1], sp[2])

\* C13: the fragments the tokenizer yields for the text before the cursor
\* are its maximal runs free of a space outside quotes, in order: a quote
\* opens a span only the same quote closes, a space inside it stays in
\* the token, no token is empty.  For echo "a b" c the fragments are echo,
\* "a b" and c, and c is the fragment handed to complete_path.
C13_Tokenizer ==
    /\ IsTokens(BeforeCursor, Fragments(BeforeCursor))
    /\ \A i \in 1..Len(Fragments(BeforeCursor)) : Fragments(BeforeCursor)[i] # <<>>
    /\ BeforeCursor = Line_echo_ab_c =>
          /\ Fragments(BeforeCursor)
                = << Str_echo, <<"\"", "a", " ", "b", "\"">>, <<"c">> >>
          /\ Completion(BeforeCursor).old_fragment = <<"c">>
          /\ Completion(BeforeCursor).candidates = complete_path(<<"c">>).candidates

\* Tab was pressed at the end of echo "a b" c.
C13_Witness ==
    /\ nkeys = 1
    /\ heap[buf] = Line_echo_ab_c
    /\ cursor = Len(Line_echo_ab_c)

\* The function keys, and the result for a suffix that is none of theirs.
FunctionKeys == {"Up", "Down", "Left", "Right", "Home", "End", "Delete"}
Unknown == "None"

\* The longest suffix of a function key.
MaxSuffix ==
    CHOOSE n \in { Len(FunctionKeySuffix[fk]) : fk \in DOMAIN FunctionKeySuffix } :
        \A fk \in DOMAIN FunctionKeySuffix : Len(FunctionKeySuffix[fk]) <= n

\* C14: whatever bytes follow ESC, the sub-read holds at most MaxSuffix
\* bytes, stops, and then resolves to a function key or to Unknown; an
\* Unknown result leaves buffer, cursor and recall index as they were.
C14_EscapeSubRead ==
    /\ [](keys # NoKeys =>
            /\ Len(keys) <= MaxSuffix
            /\ Len(keys) = MaxSuffix => ~should_read_more(keys)
            /\ ~should_read_more(keys) => try_from(keys) \in FunctionKeys \cup {Unknown})
    /\ [][FuncUnknown => UNCHANGED <<heap, history_commands, buf, cursor,
                                     command_index>>]_vars

\* With pwd recalled and the cursor inside it, the input ended after
\* ESC [ 3: the sub-read took three bytes and stopped on a suffix that is
\* no function key's.
C14_Witness ==
    /\ keys = <<"[", "3", NUL>>
    /\ ~should_read_more(keys)
    /\ try_from(keys) = Unknown
    /\ command_index = 1
    /\ cursor = 2
    /\ heap[buf] = pwd

\* C16 (as claimed): once the session thread is done parsing a submitted
\* line that is not made of spaces only, it has sent exactly one JobRequest
\* for it; until then raw mode is on and no foreground pipeline of the line
\* has started; the send itself is never blocked.
C16_OneRequestPerLine ==
    /\ (AfterRecord /\ ~AllBlank(command_bytes) /\ pc \notin {"parse", "send"})
          => sent = mark.sent + 1
    /\ (AfterRecord /\ sent = mark.sent) => (raw /\ procs = <<>>)
    /\ pc = "send" => ENABLED Send

\* The elements of ps at the positions in I, in the order of ps.
Picked(ps, I) ==
    [k \in 1..Cardinality(I) |->
        ps[CHOOSE i \in I : Cardinality({ j \in I : j <= i }) = k]]

\* fg and bg are the pipelines of ps without and with the background flag,
\* each in the order of ps.
Partitioned(ps, fg, bg) ==
    /\ fg = Picked(ps, { i \in 1..Len(ps) : ~ps[i].backend })
    /\ bg = Picked(ps, { i \in 1..Len(ps) : ps[i].backend })

\* The pipelines waiting for, or in, the backend thread.
BackendSide ==
    Range(backend) \cup Range(bk_req.pipelines)
    \cup UNION { Range(chan[i].pipelines) : i \in 1..Len(chan) }

\* C17: the foreground and background sequences of a line are the
\* pipelines of the parsed list without and with the background flag, every
\* pipeline in exactly one of them, each in the order of the list; only
\* background pipelines reach the backend thread and only foreground
\* pipelines are executed by the session thread.
C17_Partition ==
    /\ [][Parse => \E ps \in env.parses : Partitioned(ps, foreground', backend')]_vars
    /\ [](\A p \in Range(foreground) : ~p.backend)
    /\ [](\A p \in BackendSide : p.backend)

\* A line with a background pipeline between two foreground ones has been
\* partitioned, and the backend thread has executed the background one.
C17_Witness ==
    /\ pc = "foreground"
    /\ foreground = <<Fg(1), Fg(1)>>
    /\ backend = <<Bg(2)>>
    /\ bk_req.pipelines = <<Bg(2)>>
    /\ bk_next = 2

TokenStart(str) ==
    CHOOSE a \in 1..Len(str) : \E sp \in TokenSpans(str) :
        sp[1] = a /\ \A o \in TokenSpans(str) : o[1] <= a

\* The buffer and the cursor after the token before the cursor was replaced
\* by text: what stood before the token, text, what stood after the cursor.
Replaced(text) ==
    LET line == heap[buf]
        before == SubSeq(line, 1, TokenStart(BeforeCursor) - 1)
    IN  /\ buf' = buf
        /\ heap'[buf] = before \o text \o SubSeq(line, cursor + 1, Len(line))
        /\ cursor' = Len(before) + Len(text)

\* C18: a Tab with exactly one candidate replaces the token before the
\* cursor by directory-prefix + candidate: the bytes before the token and
\* after the cursor stay, the cursor ends right after the inserted text.  A
\* Tab with no candidate leaves buffer and cursor as they were.
C18_TabFrame ==
    /\ [][TabOne => \E c \in Completion(BeforeCursor).candidates :
                        Replaced(Completion(BeforeCursor).prefix \o c)]_vars
    /\ [][TabNone => (buf' = buf /\ heap'[buf] = heap[buf] /\ cursor' = cursor)]_vars

\* Tab was pressed in "ec ho" with the cursor after ec: the line is
\* "echo ho", the cursor after echo.
C18_Witness ==
    /\ nkeys = 1
    /\ heap[buf] = Str_echo \o <<" ", "h", "o">>
    /\ cursor = 4

\* A key that changes the bytes of the buffer.
EditStep == KeyPrintable \/ KeyBackSpace \/ FuncDelete \/ TabOne

\* C19: during a read the printer's buffer is the very cell of the history
\* entry at the recall index, the sentinel at first and the recalled entry
\* after Up and Down: what a key inserts or deletes is inserted into or
\* deleted from that entry, and the other entries keep their bytes.
C19_SharedStorage ==
    /\ [](pc = "readline" =>
            /\ command_index + 1 \in 1..Len(history_commands)
            /\ buf = history_commands[command_index + 1])
    /\ [][EditStep =>
            /\ history_commands' = history_commands
            /\ heap'[history_commands[command_index + 1]] = heap'[buf']
            /\ \A j \in 1..Len(history_commands) :
                  j # command_index + 1
                      => heap'[history_commands[j]] = heap[history_commands[j]]]_vars

\* pwd was recalled from the history file [ls, pwd] and its last byte
\* deleted: the stored entry is pw.
C19_Witness ==
    /\ pc = "readline"
    /\ file = <<ls, pwd>>
    /\ command_index = 1
    /\ buf = history_commands[2]
    /\ heap[history_commands[1]] = ls
    /\ heap[history_commands[2]] = <<"p", "w">>

\* C20 (as claimed): whenever the session thread is between two reads, the
\* history store holds, entry for entry and in order, the lines of the
\* history file.
C20_MemoryEqualsFile == pc = "loop" => Lines(heap, history_commands) = file

====
